---- MODULE Spec2Model ----
(***************************************************************************)
(* fresh-sitemap: saveSitemapAndRobots and everything it calls, as a state *)
(* machine.  The variant modelled is the one with arrayToObject /          *)
(* checkSegments / findFolderPathRecursively (src/unnamed/part_001; the    *)
(* same route and content logic is in src/mod.ts from line 581 on).        *)
(*                                                                         *)
(* Strings are sequences of one-character strings, so that endsWith,       *)
(* includes, split, join and the regular-expression replacements are       *)
(* computed character by character as the code computes them.              *)
(***************************************************************************)
EXTENDS Integers, Sequences, FiniteSets, TLC

\* ---------------------------------------------------------------- bounds
\* At most MaxFiles files exist below the working directory.
MaxFiles == 2
\* Modification times are 1..MaxTime.
MaxTime == 2

\* ------------------------------------------------------- string literals
SEPARATOR == "/"

s_routes    == <<"r","o","u","t","e","s">>
s_articles  == <<"a","r","t","i","c","l","e","s">>
s_blog      == <<"b","l","o","g">>
s_site      == <<"(","s","i","t","e",")">>
s_id        == <<"[","i","d","]">>
s_priv      == <<"_","x">>
s_a         == <<"a">>
s_b         == <<"b">>
s_about     == <<"a","b","o","u","t",".","t","s","x">>
s_index     == <<"i","n","d","e","x",".","t","s","x">>
s_app       == <<"_","a","p","p",".","t","s","x">>
s_idfile    == <<"[","i","d","]",".","t","s","x">>
s_slugfile  == <<"[",".",".",".","s","l","u","g","]",".","t","s","x">>
s_readme    == <<"r","e","a","d","m","e",".","m","d">>
s_hello     == <<"h","e","l","l","o",".","m","d">>
s_qanda     == <<"q","&","a",".","m","d">>
s_pages     == <<"p","a","g","e","s">>
s_reindex   == <<"r","e","i","n","d","e","x",".","t","s","x">>
s_my_page   == <<"m","y","_","p","a","g","e",".","t","s","x">>

en == <<"e","n">>
ja == <<"j","a">>

dot_tsx     == <<".","t","s","x">>
dot_md      == <<".","m","d">>
underscore  == <<"_">>
slug_token  == <<"[",".",".",".","s","l","u","g","]">>
index_word  == <<"i","n","d","e","x">>
dot_routes  == <<".","/","r","o","u","t","e","s">>
https       == <<"h","t","t","p","s",":","/","/">>

\* undefined, where a string is expected.
undefined == <<"undefined">>

\* ------------------------------------------------ JavaScript string methods
\* String.prototype.startsWith
startsWith(s, p) ==
    /\ Len(p) <= Len(s)
    /\ SubSeq(s, 1, Len(p)) = p

\* String.prototype.endsWith
endsWith(s, p) ==
    /\ Len(p) <= Len(s)
    /\ SubSeq(s, Len(s) - Len(p) + 1, Len(s)) = p

\* String.prototype.includes
includes(s, p) ==
    \E i \in 1..(Len(s) - Len(p) + 1) : SubSeq(s, i, i + Len(p) - 1) = p

\* String.prototype.split(sep) for a one-character separator: the pieces
\* between the separators, empty pieces included.
RECURSIVE split(_, _)
split(s, sep) ==
    IF \A i \in 1..Len(s) : s[i] # sep
    THEN <<s>>
    ELSE LET i == CHOOSE k \in 1..Len(s) :
                      /\ s[k] = sep
                      /\ \A j \in 1..(k - 1) : s[j] # sep
         IN  <<SubSeq(s, 1, i - 1)>> \o split(SubSeq(s, i + 1, Len(s)), sep)

\* Array.prototype.join(sep) for a one-character separator.
RECURSIVE join(_, _)
join(segs, sep) ==
    IF Len(segs) = 0 THEN <<>>
    ELSE IF Len(segs) = 1 THEN segs[1]
    ELSE segs[1] \o <<sep>> \o join(Tail(segs), sep)

\* s.replace(/p$/, ''): the literal p removed when s ends with it.
replaceAtEnd(s, p) ==
    IF endsWith(s, p) THEN SubSeq(s, 1, Len(s) - Len(p)) ELSE s

\* s.replace(p, '') with a string pattern: the first occurrence removed.
replaceFirst(s, p) ==
    IF includes(s, p)
    THEN LET i == CHOOSE k \in 1..(Len(s) - Len(p) + 1) :
                      /\ SubSeq(s, k, k + Len(p) - 1) = p
                      /\ \A j \in 1..(k - 1) : SubSeq(s, j, j + Len(p) - 1) # p
         IN  SubSeq(s, 1, i - 1) \o SubSeq(s, i + Len(p), Len(s))
    ELSE s

\* s.replace(/\/+$/, ''): every trailing slash removed.
RECURSIVE stripTrailingSlashes(_)
stripTrailingSlashes(s) ==
    IF Len(s) > 0 /\ s[Len(s)] = SEPARATOR
    THEN stripTrailingSlashes(SubSeq(s, 1, Len(s) - 1))
    ELSE s

\* normalize() of @std/path on the paths that occur here: empty and "."
\* segments are dropped, a leading slash is kept.
normalize(p) ==
    LET segs == SelectSeq(split(p, SEPARATOR), LAMBDA x : x # <<>> /\ x # <<".">>)
    IN  (IF startsWith(p, <<SEPARATOR>>) THEN <<SEPARATOR>> ELSE <<>>)
            \o join(segs, SEPARATOR)

\* join(a, b) of @std/path; the code's join(path) is pathJoin with one argument.
pathJoin(a, b) == normalize(a \o <<SEPARATOR>> \o b)

\* ------------------------------------------------------------ file system
\* The files that may exist, as segment lists from the working directory.
RouteFiles ==
    { <<s_routes, s_about>>,
      <<s_routes, s_index>>,
      <<s_routes, s_blog, s_index>>,
      <<s_routes, s_site, s_about>>,
      <<s_routes, s_app>>,
      <<s_routes, s_priv, s_about>>,
      <<s_routes, s_blog, s_idfile>>,
      <<s_routes, s_id, s_index>>,
      <<s_routes, s_blog, s_slugfile>>,
      <<s_routes, s_readme>>,
      <<s_pages, s_about>> }

ContentFiles ==
    { <<s_articles, s_blog, s_a, s_hello>>,
      <<s_articles, s_blog, s_b, s_qanda>> }

Universe == RouteFiles \cup ContentFiles

Basenames == { https \o <<"x">>, <<"x">> }
DistDirectories == { <<".", "/">> \o s_routes, s_pages }
ArticlesDirectories == { <<".", "/">> \o s_articles }
\* SiteMapOptions: languages and defaultLanguage, each possibly undefined
\* (hasLanguages tells whether options.languages is set); a default language
\* is given only with languages to choose it from.
Options ==
    { [hasLanguages |-> FALSE, languages |-> <<>>, defaultLanguage |-> undefined],
      [hasLanguages |-> TRUE, languages |-> <<>>, defaultLanguage |-> undefined] }
    \cup
    { [hasLanguages |-> TRUE, languages |-> l, defaultLanguage |-> d] :
        l \in {<<en>>, <<en, ja>>}, d \in {undefined, en} }

VARIABLES
    fs,                \* the files below the working directory: path -> mtime
    basename, distDirectory, articlesDirectory, options,   \* the arguments
    pc,                \* where saveSitemapAndRobots stands
    domain,            \* new URL(basename).hostname
    walk,              \* the paths stableRecurseFiles has still to yield
    pathMap,           \* generateSitemap: <<[path, flag]>> in insertion order
    idx,               \* generateSitemap: position of the loop over pathMap
    sitemapSet,        \* generateSitemap: the Set of entries, insertion order
    articlesSitemap,   \* generateArticlesSitemap: sitemap
    sitemapXML,        \* the lines of the XML document
    robotsTxt,         \* the lines of robots.txt
    out,               \* the two output paths: state and text of each
    derived,           \* history: which file each pushed entry came from
    io,                \* history: the file-system calls made on the tree
    error              \* history: the call that threw, if one did

vars == <<fs, basename, distDirectory, articlesDirectory, options, pc, domain,
          walk, pathMap, idx, sitemapSet, articlesSitemap, sitemapXML,
          robotsTxt, out, derived, io, error>>

\* The segments a path string resolves to, from the working directory.
resolve(p) == SelectSeq(split(p, SEPARATOR), LAMBDA x : x # <<>> /\ x # <<".">>)

isPrefix(d, f) == Len(d) < Len(f) /\ SubSeq(f, 1, Len(d)) = d

\* Deno.DirEntry.isFile / isDirectory of the entry called name in directory d.
isFile(d, name) == (d \o <<name>>) \in DOMAIN fs
isDirectory(d, name) == \E f \in DOMAIN fs : isPrefix(d \o <<name>>, f)

dirExists(d) == \E f \in DOMAIN fs : isPrefix(d, f)

\* exists() of @std/fs
exists(p) == resolve(p) \in DOMAIN fs \/ dirExists(resolve(p))

\* The names Deno.readDir(d) lists.
readDir(d) == { f[Len(d) + 1] : f \in { g \in DOMAIN fs : isPrefix(d, g) } }

\* Deno.stat(p).mtime
stat(p) == fs[resolve(p)]

\* Date.prototype.toISOString: the text of the instant t, and new Date(text),
\* the instant of a text.
Digits == <<"1", "2", "3", "4", "5", "6", "7", "8", "9">>
toISOString(t) == <<"T", Digits[t]>>
Date(text) == CHOOSE t \in 1..Len(Digits) : Digits[t] = text[2]

\* ------------------------------------------------------ stableRecurseFiles
\* The order of localeCompare on the characters that occur in names:
\* punctuation before letters.
Collation ==
    <<"_", ".", "(", ")", "[", "]", "&",
      "a", "b", "c", "d", "e", "f", "g", "h", "i", "j", "k", "l", "m",
      "n", "o", "p", "q", "r", "s", "t", "u", "v", "w", "x", "y", "z">>

rank(c) == CHOOSE i \in 1..Len(Collation) : Collation[i] = c

RECURSIVE localeCompareLess(_, _)
localeCompareLess(a, b) ==
    IF Len(a) = 0 THEN Len(b) > 0
    ELSE IF Len(b) = 0 THEN FALSE
    ELSE IF a[1] = b[1] THEN localeCompareLess(Tail(a), Tail(b))
    ELSE rank(a[1]) < rank(b[1])

\* sorted as it would be with the comparison turned round.
RECURSIVE sorted_descending(_)
sorted_descending(names) ==
    IF names = {} THEN <<>>
    ELSE LET m == CHOOSE x \in names :
                      \A y \in names \ {x} : localeCompareLess(y, x)
         IN  <<m>> \o sorted_descending(names \ {m})

\* files.sort(localeCompare) of a set of distinct names.
RECURSIVE sorted(_)
sorted(names) ==
    IF names = {} THEN <<>>
    ELSE LET m == CHOOSE x \in names :
                      \A y \in names \ {x} : localeCompareLess(x, y)
         IN  <<m>> \o sorted(names \ {m})

\* files.sort(localeCompare) on the entries in the order Deno.readDir listed
\* them: every entry is put behind the entries that do not come after it.
RECURSIVE filesSort(_)
filesSort(files) ==
    IF Len(files) = 0 THEN <<>>
    ELSE LET front == filesSort(SubSeq(files, 1, Len(files) - 1))
             n1 == files[Len(files)]
             before == SelectSeq(front, LAMBDA n0 : ~localeCompareLess(n1, n0))
             after == SelectSeq(front, LAMBDA n0 : localeCompareLess(n1, n0))
         IN  before \o <<n1>> \o after

RECURSIVE stableRecurseFiles(_)
stableRecurseFiles(directory) ==
    LET d == resolve(directory)
        names == sorted(readDir(d))
        yielded[i \in 0..Len(names)] ==
            IF i = 0 THEN <<>>
            ELSE LET path == pathJoin(directory, names[i])
                 IN  yielded[i - 1] \o
                       (IF isFile(d, names[i]) THEN <<path>>
                        ELSE IF isDirectory(d, names[i])
                             THEN stableRecurseFiles(path)
                             ELSE <<>>)
    IN  yielded[Len(names)]

\* The directories stableRecurseFiles(directory) hands to Deno.readDir: the
\* directory itself and every directory below it.
RECURSIVE listedBy(_)
listedBy(directory) ==
    LET d == resolve(directory)
    IN  {directory} \cup
        UNION { listedBy(pathJoin(directory, name)) :
                  name \in { n \in readDir(d) : isDirectory(d, n) } }

\* One call on the file system: the operation, the function whose code makes
\* it, the generator on whose behalf, and the path handed over.
call(op, fn, from, path) == [op |-> op, fn |-> fn, from |-> from, path |-> path]

\* The Deno.readDir calls of one stableRecurseFiles(directory).
walkCalls(directory, from) ==
    { call("readDir", "stableRecurseFiles", from, d) : d \in listedBy(directory) }

\* ------------------------------------------- arrayToObject, checkSegments
\* arrayToObject: every segment a key with the value 1.
arrayToObject(arr) == [ k \in { arr[i] : i \in 1..Len(arr) } |-> 1 ]

\* checkSegments: 0 for (group), [param] and the segment routes.
checkSegments(obj) ==
    [ key \in DOMAIN obj |->
        IF \/ startsWith(key, <<"(">>) /\ endsWith(key, <<")">>)
           \/ startsWith(key, <<"[">>) /\ endsWith(key, <<"]">>)
           \/ key = s_routes
        THEN 0 ELSE obj[key] ]

\* The segments of segs that checkSegments leaves at 1, joined with "/".
neededSegmentsPath(segs) ==
    LET checkedSegments == checkSegments(arrayToObject(segs))
    IN  join(SelectSeq(segs, LAMBDA seg : checkedSegments[seg] = 1), "/")

\* generateSitemap: cleanedPath of a walked path; /\index$/ is the word
\* index at the end of the string (\i is the letter i).
cleanedPath(path) ==
    replaceAtEnd(replaceAtEnd(neededSegmentsPath(split(path, SEPARATOR)),
                              dot_tsx),
                 index_word)

\* processPathSegments as it would be without the test for an underscore.
processPathSegments_noUnderscoreTest(map, path) ==
    IF ~endsWith(path, dot_tsx) THEN map
    ELSE IF includes(path, slug_token)
         THEN Append(map, [path |-> path, flag |-> 0])
    ELSE Append(map, [path |-> path, flag |-> 1])

\* processPathSegments: pathMap after the call for path.  Walked paths are
\* distinct, so every recorded path is a new key, at the end of the
\* insertion order.
processPathSegments(map, path) ==
    IF ~endsWith(path, dot_tsx) THEN map
    ELSE IF includes(path, underscore)
         THEN Append(map, [path |-> path, flag |-> 0])
    ELSE IF includes(path, slug_token)
         THEN Append(map, [path |-> path, flag |-> 0])
    ELSE Append(map, [path |-> path, flag |-> 1])

\* Set.prototype.add on an insertion-ordered Set of JSON.stringify texts; the
\* texts of two entries are equal exactly when loc and lastmod are.
setAdd(set, e) ==
    IF \E i \in 1..Len(set) : set[i] = e THEN set ELSE Append(set, e)

\* generateSitemap, lines 190-193: the locs for one cleaned path, one per
\* language in forEach order; none when options.languages is undefined.
routeLocs(cleaned) ==
    LET langs == IF options.hasLanguages THEN options.languages ELSE <<>>
    IN  [ i \in 1..Len(langs) |-> basename \o <<"/">> \o langs[i] \o cleaned ]

\* The entries generateSitemap adds for one included path, in forEach order.
routeEntries(path, mtime) ==
    LET locs == routeLocs(cleanedPath(path))
    IN  [ i \in 1..Len(locs) |->
            [ loc |-> locs[i], lastmod |-> toISOString(mtime) ] ]

RECURSIVE addAll(_, _)
addAll(set, es) ==
    IF Len(es) = 0 THEN set ELSE addAll(setAdd(set, es[1]), Tail(es))

\* new URL(basename).hostname: the host of an https URL, NoHost when basename
\* does not parse.
NoHost == <<>>

\* hostname as it would be if new URL took any text for a host.
hostname_anyText(b) ==
    IF startsWith(b, https) /\ Len(b) > Len(https)
    THEN split(SubSeq(b, Len(https) + 1, Len(b)), "/")[1]
    ELSE b

hostname(b) ==
    IF startsWith(b, https) /\ Len(b) > Len(https)
    THEN split(SubSeq(b, Len(https) + 1, Len(b)), "/")[1]
    ELSE NoHost

\* -------------------------------------------------------------- the program
NoFile == [state |-> "absent", text |-> <<>>]

Init ==
    /\ \E F \in SUBSET Universe :
          /\ Cardinality(F) <= MaxFiles
          /\ fs \in [F -> 1..MaxTime]
    /\ basename \in Basenames
    /\ distDirectory \in DistDirectories
    /\ articlesDirectory \in ArticlesDirectories
    /\ options \in Options
    /\ pc = "start"
    /\ domain = NoHost
    /\ walk = <<>>
    /\ pathMap = <<>>
    /\ idx = 1
    /\ sitemapSet = <<>>
    /\ articlesSitemap = <<>>
    /\ sitemapXML = <<>>
    /\ robotsTxt = <<>>
    /\ out = [sitemap |-> NoFile, robots |-> NoFile]
    /\ derived = {}
    /\ io = {}
    /\ error = {}

args == <<fs, basename, distDirectory, articlesDirectory, options>>

\* ParseBasename as it would be if saveSitemapAndRobots made sure of the
\* sitemap file first and generated the document afterwards.
ParseBasename_ensuresFirst ==
    /\ pc = "start"
    /\ domain' = hostname(basename)
    /\ pc' = IF hostname(basename) = NoHost THEN "failed" ELSE "addDirectory"
    /\ error' = IF hostname(basename) = NoHost
                THEN {call("new URL", "saveSitemapAndRobots",
                           "saveSitemapAndRobots", basename)}
                ELSE error
    /\ out' = IF hostname(basename) = NoHost THEN out
              ELSE [out EXCEPT !["sitemap"] = [state |-> "created", text |-> <<>>]]
    /\ io' = IF hostname(basename) = NoHost THEN io
             ELSE io \cup {call("ensureFile", "saveSitemapAndRobots",
                                "saveSitemapAndRobots", <<"sitemap">>)}
    /\ UNCHANGED <<fs, basename, distDirectory, articlesDirectory, options,
                   walk, pathMap, idx, sitemapSet, articlesSitemap,
                   sitemapXML, robotsTxt, derived>>

\* saveSitemapAndRobots, line 75: new URL(basename) throws on a basename that
\* does not parse.
ParseBasename ==
    /\ pc = "start"
    /\ domain' = hostname(basename)
    /\ pc' = IF hostname(basename) = NoHost THEN "failed" ELSE "addDirectory"
    /\ error' = IF hostname(basename) = NoHost
                THEN {call("new URL", "saveSitemapAndRobots",
                           "saveSitemapAndRobots", basename)}
                ELSE error
    /\ UNCHANGED <<args, walk, pathMap, idx, sitemapSet, articlesSitemap,
                   sitemapXML, robotsTxt, out, derived, io>>

\* generateSitemap, addDirectory(distDirectory): the walk starts; Deno.readDir
\* throws when the directory does not exist.
AddDirectory ==
    /\ pc = "addDirectory"
    /\ IF dirExists(resolve(distDirectory))
       THEN /\ walk' = stableRecurseFiles(distDirectory)
            /\ io' = io \cup walkCalls(distDirectory, "generateSitemap")
            /\ error' = error
            /\ pc' = "walkRoutes"
       ELSE LET thrown == call("readDir", "stableRecurseFiles",
                               "generateSitemap", distDirectory)
            IN  /\ walk' = walk
                /\ io' = io \cup {thrown}
                /\ error' = {thrown}
                /\ pc' = "failed"
    /\ UNCHANGED <<args, domain, pathMap, idx, sitemapSet, articlesSitemap,
                   sitemapXML, robotsTxt, out, derived>>

\* One path yielded by stableRecurseFiles and handed to processPathSegments.
ProcessPathSegments ==
    /\ pc = "walkRoutes"
    /\ walk # <<>>
    /\ pathMap' = processPathSegments(pathMap, Head(walk))
    /\ walk' = Tail(walk)
    /\ pc' = IF Tail(walk) # <<>> THEN "walkRoutes"
             ELSE IF pathMap' # <<>> THEN "pathLoop"
             ELSE "articles"
    /\ idx' = 1
    /\ UNCHANGED <<args, domain, sitemapSet, articlesSitemap, sitemapXML,
                   robotsTxt, out, derived, io, error>>

\* generateSitemap, one turn of the loop over pathMap up to the test of line
\* 171: a path flagged 0 and a path whose file does not exist are passed
\* over; for the others Deno.stat is awaited next.
PathLoop ==
    /\ pc = "pathLoop"
    /\ idx <= Len(pathMap)
    /\ LET path == pathMap[idx].path
           filePath == normalize(path)
           included == pathMap[idx].flag = 1 /\ exists(filePath)
       IN  /\ io' = io
                 \cup (IF pathMap[idx].flag = 1
                       THEN {call("exists", "generateSitemap",
                                  "generateSitemap", filePath)}
                       ELSE {})
           /\ idx' = IF included THEN idx ELSE idx + 1
           /\ pc' = IF included THEN "stat"
                    ELSE IF idx = Len(pathMap) THEN "articles" ELSE "pathLoop"
    /\ UNCHANGED <<args, domain, walk, pathMap, sitemapSet, articlesSitemap,
                   sitemapXML, robotsTxt, out, derived, error>>

\* generateSitemap, the rest of the turn (lines 174-197): Deno.stat throws
\* when the file is not there any more; otherwise one entry per language is
\* added to sitemapSet.
PathStat ==
    /\ pc = "stat"
    /\ LET path == pathMap[idx].path
           filePath == normalize(path)
           read == call("stat", "generateSitemap", "generateSitemap", filePath)
       IN  /\ io' = io \cup {read}
           /\ IF exists(filePath)
              THEN LET added == routeEntries(path, stat(filePath))
                   IN  /\ sitemapSet' = addAll(sitemapSet, added)
                       /\ derived' = derived \cup
                             { [file |-> path, loc |-> added[i].loc,
                                lastmod |-> added[i].lastmod] :
                               i \in 1..Len(added) }
                       /\ error' = error
                       /\ idx' = idx + 1
                       /\ pc' = IF idx = Len(pathMap) THEN "articles"
                                ELSE "pathLoop"
              ELSE /\ error' = {read}
                   /\ pc' = "failed"
                   /\ UNCHANGED <<sitemapSet, derived, idx>>
    /\ UNCHANGED <<args, domain, walk, pathMap, articlesSitemap, sitemapXML,
                   robotsTxt, out>>

\* null, where a string is expected.
null == <<"null">>

\* findFolderPathRecursively: the outcomes it can have, one for every order
\* in which Deno.readDir may list the entries.  An outcome is the path
\* returned (or null) and the directories that were listed on the way.
\* findFolderLoop is the for-await loop with the entries still to come.
RECURSIVE findFolderPathRecursively(_, _)
RECURSIVE findFolderLoop(_, _, _, _)
findFolderLoop(baseDirectory, targetFolderName, entries, listed) ==
    IF entries = {}
    THEN {[result |-> null, listed |-> listed]}
    ELSE UNION {
           LET entryPath == baseDirectory \o <<"/">> \o name
               rest == entries \ {name}
           IN  IF ~isDirectory(resolve(baseDirectory), name)
               THEN findFolderLoop(baseDirectory, targetFolderName, rest, listed)
               ELSE IF name = targetFolderName
               THEN {[result |-> entryPath, listed |-> listed]}
               ELSE UNION {
                      IF foundInSubDir.result # null
                      THEN {[result |-> foundInSubDir.result,
                             listed |-> listed \cup foundInSubDir.listed]}
                      ELSE findFolderLoop(baseDirectory, targetFolderName, rest,
                                          listed \cup foundInSubDir.listed)
                      : foundInSubDir \in
                          findFolderPathRecursively(entryPath, targetFolderName) }
           : name \in entries }

findFolderPathRecursively(baseDirectory, targetFolderName) ==
    findFolderLoop(baseDirectory, targetFolderName,
                   readDir(resolve(baseDirectory)), {baseDirectory})

\* addMarkdownFile, lines 259-271: the pathname for a content file whose
\* route directory is articleRoute.
articlePathname(segments, articleRoute) ==
    LET routeSegments == split(replaceFirst(articleRoute, dot_routes), SEPARATOR)
        slugSegmentsPath ==
            join(SubSeq(segments, 4, Len(segments)), "/")
    IN  neededSegmentsPath(routeSegments) \o <<"/">> \o slugSegmentsPath

\* addMarkdownFile, lines 273-275: urlPaths for pathname; languages is
\* options.languages || [].
urlPaths(pathname) ==
    LET languages == options.languages
    IN  IF Len(languages) > 0
        THEN [ i \in 1..Len(languages) |-> <<"/">> \o languages[i] \o pathname ]
        ELSE <<pathname>>

\* addMarkdownFile, lines 277-283: the entries pushed for pathname.
articleEntries(path, pathname) ==
    [ i \in 1..Len(urlPaths(pathname)) |->
        [ loc |-> stripTrailingSlashes(basename) \o urlPaths(pathname)[i],
          lastmod |-> toISOString(stat(path)) ] ]

\* ArticlesExists as it would be without the test of line 247: the walk
\* starts at once, and Deno.readDir throws on a directory that is missing.
ArticlesExists_noExistsTest ==
    /\ pc = "articles"
    /\ IF dirExists(resolve(articlesDirectory))
       THEN /\ walk' = stableRecurseFiles(articlesDirectory)
            /\ io' = io \cup walkCalls(articlesDirectory, "generateArticlesSitemap")
            /\ error' = error
            /\ pc' = "walkArticles"
       ELSE LET thrown == call("readDir", "stableRecurseFiles",
                               "generateArticlesSitemap", articlesDirectory)
            IN  /\ walk' = walk
                /\ io' = io \cup {thrown}
                /\ error' = {thrown}
                /\ pc' = "failed"
    /\ UNCHANGED <<fs, basename, distDirectory, articlesDirectory, options,
                   domain, pathMap, idx, sitemapSet, articlesSitemap,
                   sitemapXML, robotsTxt, out, derived>>

\* generateArticlesSitemap, lines 244-247: an articles directory that does not
\* exist gives the empty sitemap; otherwise the walk starts.
ArticlesExists ==
    /\ pc = "articles"
    /\ IF exists(articlesDirectory)
       THEN /\ walk' = stableRecurseFiles(articlesDirectory)
            /\ io' = io
                  \cup {call("exists", "generateArticlesSitemap",
                             "generateArticlesSitemap", articlesDirectory)}
                  \cup walkCalls(articlesDirectory, "generateArticlesSitemap")
            /\ pc' = "walkArticles"
       ELSE /\ walk' = walk
            /\ io' = io
                  \cup {call("exists", "generateArticlesSitemap",
                             "generateArticlesSitemap", articlesDirectory)}
            /\ pc' = "xml"
    /\ UNCHANGED <<args, domain, pathMap, idx, sitemapSet, articlesSitemap,
                   sitemapXML, robotsTxt, out, derived, error>>

\* One path of the articles walk: addMarkdownFile for a .md file.  The route
\* directory is looked up in ./routes, whose listing throws when it is
\* missing; the directory found depends on the listing order.
AddMarkdownFile ==
    /\ pc = "walkArticles"
    /\ walk # <<>>
    /\ LET path == Head(walk)
           segments == split(replaceAtEnd(path, dot_md), SEPARATOR)
           articleType == IF Len(segments) >= 2 THEN segments[2] ELSE undefined
           next == IF Tail(walk) = <<>> THEN "xml" ELSE "walkArticles"
           lookup(d) == call("readDir", "findFolderPathRecursively",
                             "generateArticlesSitemap", d)
       IN  IF ~endsWith(path, dot_md)
           THEN /\ pc' = next
                /\ UNCHANGED <<articlesSitemap, derived, io, error>>
           ELSE IF ~dirExists(resolve(dot_routes))
           THEN /\ pc' = "failed"
                /\ io' = io \cup {lookup(dot_routes)}
                /\ error' = {lookup(dot_routes)}
                /\ UNCHANGED <<articlesSitemap, derived>>
           ELSE \E found \in findFolderPathRecursively(dot_routes, articleType) :
                  LET articleRoute == found.result
                      added == IF articleRoute = null THEN <<>>
                               ELSE articleEntries(path,
                                        articlePathname(segments, articleRoute))
                  IN  /\ articlesSitemap' = articlesSitemap \o added
                      /\ derived' = derived \cup
                            { [file |-> path, loc |-> added[i].loc,
                               lastmod |-> added[i].lastmod] :
                              i \in 1..Len(added) }
                      /\ io' = io
                            \cup { lookup(d) : d \in found.listed }
                            \cup (IF articleRoute = null THEN {}
                                  ELSE {call("stat", "addMarkdownFile",
                                             "generateArticlesSitemap", path)})
                      /\ error' = error
                      /\ pc' = next
    /\ walk' = Tail(walk)
    /\ UNCHANGED <<args, domain, pathMap, idx, sitemapSet, sitemapXML,
                   robotsTxt, out>>

\* sitemapToXML: the lines of the document.  A line is the sequence of its
\* characters, a piece of the template counting as one; loc and lastmod are
\* put between the tags as they are.  One url line per entry, and an empty
\* sitemap leaves one empty line between the urlset tags.
sitemapToXML(sitemap) ==
    << <<"<?xml version=\"1.0\" encoding=\"UTF-8\"?>">>,
       <<"<urlset xmlns=\"http://www.sitemaps.org/schemas/sitemap/0.9\">">> >>
    \o (IF Len(sitemap) = 0 THEN << <<>> >>
        ELSE [ i \in 1..Len(sitemap) |->
                 <<"<url>", "<loc>">> \o sitemap[i].loc
                   \o <<"</loc>", "<lastmod>">> \o sitemap[i].lastmod
                   \o <<"</lastmod>", "</url>">> ])
    \o << <<"</urlset>">> >>

\* generateRobotsTxt as it would be with the sitemap at the root of the host
\* but without its file name.
generateRobotsTxt_noFileName(d) ==
    << <<"# *">>, <<"User-agent: *">>, <<"Allow: /">>, <<>>, <<"# Host">>,
       <<"Host: https://">> \o d, <<>>, <<"# Sitemaps">>,
       <<"Sitemap: https://">> \o d, <<>> >>

\* generateRobotsTxt: the lines of robots.txt, each the sequence of its
\* characters, a piece of the template counting as one.
generateRobotsTxt(d) ==
    << <<"# *">>, <<"User-agent: *">>, <<"Allow: /">>, <<>>, <<"# Host">>,
       <<"Host: https://">> \o d, <<>>, <<"# Sitemaps">>,
       <<"Sitemap: https://">> \o d \o <<"/sitemap.xml">>, <<>> >>

\* generateSitemapXML: the route entries followed by the article entries.
generateSitemapXML(routesSitemap, articles) ==
    sitemapToXML(routesSitemap \o articles)

\* generateSitemapXML returns and generateRobotsTxt runs (lines 36-37, 82).
GenerateXML ==
    /\ pc = "xml"
    /\ sitemapXML' = generateSitemapXML(sitemapSet, articlesSitemap)
    /\ robotsTxt' = generateRobotsTxt(domain)
    /\ pc' = "ensureSitemap"
    /\ UNCHANGED <<args, domain, walk, pathMap, idx, sitemapSet,
                   articlesSitemap, out, derived, io, error>>

\* ensureFile(path): creates the file, empty, when it is missing; may throw.
EnsureFile(at, file, next) ==
    /\ pc = at
    /\ \E ok \in BOOLEAN :
         LET made == call("ensureFile", "saveSitemapAndRobots",
                          "saveSitemapAndRobots", <<file>>)
         IN  /\ io' = io \cup {made}
             /\ IF ok
                THEN /\ out' = [out EXCEPT ![file] =
                                  IF @.state = "absent"
                                  THEN [state |-> "created", text |-> <<>>]
                                  ELSE @]
                     /\ error' = error
                     /\ pc' = next
                ELSE /\ out' = out
                     /\ error' = {made}
                     /\ pc' = "failed"
    /\ UNCHANGED <<args, domain, walk, pathMap, idx, sitemapSet,
                   articlesSitemap, sitemapXML, robotsTxt, derived>>

\* Deno.writeTextFile(path, text): the file holds text; may throw.
WriteTextFile(at, file, text, next) ==
    /\ pc = at
    /\ \E ok \in BOOLEAN :
         LET made == call("writeTextFile", "saveSitemapAndRobots",
                          "saveSitemapAndRobots", <<file>>)
         IN  /\ io' = io \cup {made}
             /\ IF ok
                THEN /\ out' = [out EXCEPT ![file] =
                                  [state |-> "written", text |-> text]]
                     /\ error' = error
                     /\ pc' = next
                ELSE /\ out' = out
                     /\ error' = {made}
                     /\ pc' = "failed"
    /\ UNCHANGED <<args, domain, walk, pathMap, idx, sitemapSet,
                   articlesSitemap, sitemapXML, robotsTxt, derived>>

\* saveSitemapAndRobots, lines 84-88.
EnsureSitemapFile == EnsureFile("ensureSitemap", "sitemap", "writeSitemap")
WriteSitemap == WriteTextFile("writeSitemap", "sitemap", sitemapXML, "ensureRobots")
EnsureRobotsFile == EnsureFile("ensureRobots", "robots", "writeRobots")
WriteRobots == WriteTextFile("writeRobots", "robots", robotsTxt, "done")

Next ==
    \/ ParseBasename
    \/ AddDirectory
    \/ ProcessPathSegments
    \/ PathLoop
    \/ PathStat
    \/ ArticlesExists
    \/ AddMarkdownFile
    \/ GenerateXML
    \/ EnsureSitemapFile
    \/ WriteSitemap
    \/ EnsureRobotsFile
    \/ WriteRobots

Spec == Init /\ [][Next]_vars

\* ------------------------------------- the program while the tree changes
\* The same program on further trees and arguments, with files that are
\* removed while generateSitemap awaits in its loop over pathMap: a second
\* blog directory below routes, file names that hold the letters index or an
\* underscore, and a basename with a slash at its end.
WideFiles ==
    { <<s_routes, s_blog, s_index>>,
      <<s_routes, s_a, s_blog, s_index>>,
      <<s_routes, s_reindex>>,
      <<s_routes, s_my_page>>,
      <<s_articles, s_blog, s_a, s_hello>> }

WideBasenames == { https \o <<"x">>, https \o <<"x", "/">> }
WideOptions ==
    { o \in Options : o.defaultLanguage = undefined /\ Len(o.languages) <= 1 }

InitWide ==
    /\ \E F \in SUBSET WideFiles :
          /\ Cardinality(F) <= MaxFiles + 1
          /\ fs = [ f \in F |-> MaxTime ]
    /\ basename \in WideBasenames
    /\ distDirectory = dot_routes
    /\ articlesDirectory \in ArticlesDirectories
    /\ options \in WideOptions
    /\ pc = "start"
    /\ domain = NoHost
    /\ walk = <<>>
    /\ pathMap = <<>>
    /\ idx = 1
    /\ sitemapSet = <<>>
    /\ articlesSitemap = <<>>
    /\ sitemapXML = <<>>
    /\ robotsTxt = <<>>
    /\ out = [sitemap |-> NoFile, robots |-> NoFile]
    /\ derived = {}
    /\ io = {}
    /\ error = {}

\* A file is removed by another process while generateSitemap awaits exists
\* or Deno.stat in its loop (lines 171 and 174): the walk of the routes has
\* ended and that of the content has not begun.
Unlink ==
    /\ pc \in {"pathLoop", "stat"}
    /\ \E f \in DOMAIN fs : fs' = [ g \in DOMAIN fs \ {f} |-> fs[g] ]
    /\ UNCHANGED <<basename, distDirectory, articlesDirectory, options, pc,
                   domain, walk, pathMap, idx, sitemapSet, articlesSitemap,
                   sitemapXML, robotsTxt, out, derived, io, error>>

NextWide == Next \/ Unlink

SpecWide == InitWide /\ [][NextWide]_vars

\* ------------------------------- generateSitemap with include and exclude
\* The variant of generateSitemap whose options carry an include and an
\* exclude glob (src/unnamed/part_002, lines 74-118), as a function of the
\* walked path and of the two options.

\* globToRegExp(glob).test(s) for globs of characters and *: a * stands for
\* any characters but the separator, the rest for themselves, and the
\* expression lets separators follow at the end.
RECURSIVE globTest(_, _)
globTest(glob, s) ==
    IF Len(glob) = 0 THEN \A i \in 1..Len(s) : s[i] = SEPARATOR
    ELSE IF glob[1] = "*"
         THEN \/ globTest(Tail(glob), s)
              \/ Len(s) > 0 /\ s[1] # SEPARATOR /\ globTest(glob, Tail(s))
    ELSE Len(s) > 0 /\ s[1] = glob[1] /\ globTest(Tail(glob), Tail(s))

\* options.include && globToRegExp(options.include): a glob that is undefined
\* or the empty string gives no expression.
hasGlob(glob) == glob # undefined /\ glob # <<>>

\* Lines 85-88: pathname of a walked path.
globPathname(path) ==
    LET relPath == IF distDirectory = <<".">> THEN path
                   ELSE SubSeq(path, Len(distDirectory) + 1, Len(path))
    IN  join(split(normalize(<<"/">> \o relPath), SEPARATOR), "/")

\* Lines 91-96: the path with this pathname is not skipped by one of the two
\* continue statements.
globFilterPasses(pathname, include, exclude) ==
    LET isExcluded == hasGlob(exclude) /\ globTest(exclude, Tail(pathname))
        isIncluded == ~hasGlob(include) \/ globTest(include, Tail(pathname))
    IN  /\ ~(includes(pathname, <<"(">>) \/ includes(pathname, <<"[">>))
        /\ ~(isExcluded \/ ~isIncluded)

\* Lines 91-112: the entries pushed for a walked path with this pathname and
\* this mtime: the bare pathname, then one per language that is not the
\* default.
globEntries(pathname, mtime, include, exclude) ==
    LET lastmod == toISOString(mtime)
        langs == SelectSeq(IF options.hasLanguages THEN options.languages
                           ELSE <<>>,
                           LAMBDA lang : lang # options.defaultLanguage)
    IN  IF ~globFilterPasses(pathname, include, exclude) THEN <<>>
        ELSE << [loc |-> basename \o pathname, lastmod |-> lastmod] >>
             \o [ i \in 1..Len(langs) |->
                    [ loc |-> basename \o <<"/">> \o langs[i] \o pathname,
                      lastmod |-> lastmod ] ]

\* ------------------------------------ generateSitemapXML that deduplicates
\* The variant of generateSitemapXML that keeps one entry per loc
\* (src/mod.ts, lines 647-665).  sitemapMap is the Map in insertion order, a
\* sequence of [loc, lastmod]; Map.set on a key that is there keeps its place.
mapHas(sitemapMap, loc) == \E i \in 1..Len(sitemapMap) : sitemapMap[i].loc = loc
mapGet(sitemapMap, loc) ==
    IF mapHas(sitemapMap, loc)
    THEN sitemapMap[CHOOSE i \in 1..Len(sitemapMap) : sitemapMap[i].loc = loc].lastmod
    ELSE undefined
mapSet(sitemapMap, loc, lastmod) ==
    IF mapHas(sitemapMap, loc)
    THEN [ i \in 1..Len(sitemapMap) |->
             IF sitemapMap[i].loc = loc THEN [loc |-> loc, lastmod |-> lastmod]
             ELSE sitemapMap[i] ]
    ELSE Append(sitemapMap, [loc |-> loc, lastmod |-> lastmod])

\* keepLatest as it would be without the comparison of the two dates.
keepLatest_noDateTest(sitemapMap, entry) ==
    mapSet(sitemapMap, entry.loc, entry.lastmod)

\* Lines 652-658, one turn of the loop over combinedSitemap.
keepLatest(sitemapMap, entry) ==
    LET existingLastmod == mapGet(sitemapMap, entry.loc)
    IN  IF \/ existingLastmod = undefined
           \/ Date(entry.lastmod) > Date(existingLastmod)
        THEN mapSet(sitemapMap, entry.loc, entry.lastmod)
        ELSE sitemapMap

\* Lines 651-663: uniqueSitemap for combinedSitemap.
RECURSIVE uniqueSitemap(_)
uniqueSitemap(combinedSitemap) ==
    IF Len(combinedSitemap) = 0 THEN <<>>
    ELSE keepLatest(uniqueSitemap(SubSeq(combinedSitemap, 1,
                                         Len(combinedSitemap) - 1)),
                    combinedSitemap[Len(combinedSitemap)])

\* ------------------------------------------------- notions of the claims
\* The routes root as segments, the route files below it and the path string
\* under which the walk yields a file.
routesRoot == resolve(distDirectory)
routeFiles == { f \in DOMAIN fs : isPrefix(routesRoot, f) }
relSegments(f) == SubSeq(f, Len(routesRoot) + 1, Len(f))
walkedPath(f) == join(f, "/")

\* The segment names of a route file below the root, the extension removed.
nameSegments(f) ==
    [ i \in 1..Len(relSegments(f)) |-> replaceAtEnd(relSegments(f)[i], dot_tsx) ]

isRoute(f) == endsWith(f[Len(f)], dot_tsx)
isPrivateSegment(seg) == startsWith(seg, <<"_">>)
isBracketedSegment(seg) == startsWith(seg, <<"[">>) /\ endsWith(seg, <<"]">>)
isGroupSegment(seg) == startsWith(seg, <<"(">>) /\ endsWith(seg, <<")">>)

hasPrivateSegment(f) ==
    \E i \in 1..Len(nameSegments(f)) : isPrivateSegment(nameSegments(f)[i])
hasBracketedSegment(f) ==
    \E i \in 1..Len(nameSegments(f)) : isBracketedSegment(nameSegments(f)[i])
hasGroupSegment(f) ==
    \E i \in 1..Len(nameSegments(f)) : isGroupSegment(nameSegments(f)[i])

\* A route the sitemap is to list: a .tsx file with no private and no
\* bracketed segment.
isIncludedRoute(f) ==
    f \in routeFiles /\ isRoute(f) /\ ~hasPrivateSegment(f) /\ ~hasBracketedSegment(f)

\* The canonical path of a route: group segments removed, the extension
\* removed, a final index segment removed, a leading slash; "/" for the root.
canonicalPath(f) ==
    LET kept == SelectSeq(nameSegments(f), LAMBDA seg : ~isGroupSegment(seg))
        collapsed == IF Len(kept) > 0 /\ kept[Len(kept)] = index_word
                     THEN SubSeq(kept, 1, Len(kept) - 1) ELSE kept
    IN  <<"/">> \o join(collapsed, "/")

\* The entries and the locs that were added for a file.
entriesFrom(f) == { d \in derived : d.file = walkedPath(f) }
locsFrom(f) == { d.loc : d \in entriesFrom(f) }

\* The languages configured, as a set, and those that are not the default.
languageSet ==
    { options.languages[i] : i \in 1..Len(options.languages) }
otherLanguages == languageSet \ {options.defaultLanguage}

\* generateSitemap has returned its entry list.
generateSitemapReturned ==
    pc \in {"articles", "walkArticles", "xml", "ensureSitemap", "writeSitemap",
            "ensureRobots", "writeRobots", "done"}

\* generateSitemapXML has returned the document.
generateSitemapXMLReturned ==
    pc \in {"ensureSitemap", "writeSitemap", "ensureRobots", "writeRobots",
            "done"}

\* The instant a lastmod text stands for.
instant(lastmod) == Date(lastmod)

\* The url lines of the document, and the characters a url line has between
\* the tag open and the first tag close after it.
urlLines(xml) == SelectSeq(xml, LAMBDA line : Len(line) > 1)
position(line, tag) == CHOOSE k \in 1..Len(line) :
                           line[k] = tag /\ \A j \in 1..(k - 1) : line[j] # tag
between(line, open, close) ==
    SubSeq(line, position(line, open) + 1, position(line, close) - 1)

\* The (loc, lastmod) pairs as they stand in the url lines of the document.
serializedEntries(xml) ==
    LET lines == urlLines(xml)
    IN  [ i \in 1..Len(lines) |->
            [ loc |-> between(lines[i], "<loc>", "</loc>"),
              lastmod |-> between(lines[i], "<lastmod>", "</lastmod>") ] ]

\* ------------------------------------------------------------------ claims

\* C1: with languages L and defaultLanguage d in L, an included route with
\* canonical path P gives exactly the entry at the bare path P and one entry
\* at /l + P for every other language l of L, and none at /d + P.
C1_DefaultLanguageBare ==
    (generateSitemapReturned /\ options.defaultLanguage \in languageSet) =>
        \A f \in DOMAIN fs :
            isIncludedRoute(f) =>
                locsFrom(f) =
                    {basename \o canonicalPath(f)} \cup
                    { basename \o <<"/">> \o l \o canonicalPath(f) :
                        l \in otherLanguages }

\* C2: a route file with a path segment that starts with _ (a directory or
\* the file itself) contributes no entry, whatever the languages are: nothing
\* is added for it, and every url line of the document (looked at when
\* generateSitemapXML has returned it) comes from a file that has no such
\* segment.
C2_PrivateRoutesExcluded ==
    LET private == { walkedPath(f) : f \in { g \in routeFiles : hasPrivateSegment(g) } }
        es == serializedEntries(sitemapXML)
    IN  /\ derived # {} => \A d \in derived : d.file \notin private
        /\ pc = "ensureSitemap" =>
              \A i \in 1..Len(es) :
                \E d \in derived :
                    /\ d.loc = es[i].loc
                    /\ d.lastmod = es[i].lastmod
                    /\ d.file \notin private

\* C2, witness: a private route file was walked and the loop over pathMap has
\* passed it, with a language configured and the document written, while
\* another file did give entries.
C2_Witness ==
    /\ pc = "done"
    /\ options.hasLanguages /\ Len(options.languages) > 0
    /\ \E f \in routeFiles : isRoute(f) /\ hasPrivateSegment(f)
    /\ Len(serializedEntries(out.sitemap.text)) > 0

\* C3: a route file with a bracketed segment gives no entry.
C3_BracketedRoutesExcluded ==
    generateSitemapReturned =>
        \A f \in routeFiles : hasBracketedSegment(f) => entriesFrom(f) = {}

\* C4: with languages unset or empty, every included route gives exactly one
\* entry, at the bare canonical path.
C4_NoLanguagesBarePath ==
    (generateSitemapReturned /\ Len(options.languages) = 0) =>
        \A f \in DOMAIN fs :
            isIncludedRoute(f) =>
                /\ Cardinality(entriesFrom(f)) = 1
                /\ locsFrom(f) = {basename \o canonicalPath(f)}

\* C5: the serialized entry list has at most one entry per loc, and the entry
\* kept for a loc carries the latest lastmod discovered for that loc.  Stated
\* for trees whose route files are all routes the sitemap is to list, so that
\* the entries sharing a loc are entries that belong in the sitemap.
C5_OneEntryPerLoc ==
    (/\ generateSitemapXMLReturned
     /\ \A f \in routeFiles : isRoute(f) => isIncludedRoute(f)) =>
        LET es == serializedEntries(sitemapXML)
        IN  /\ \A i, j \in 1..Len(es) : es[i].loc = es[j].loc => i = j
            /\ \A i \in 1..Len(es) : \A d \in derived :
                  d.loc = es[i].loc =>
                      instant(d.lastmod) <= instant(es[i].lastmod)

\* C6: when saveSitemapAndRobots has ended, normally or by an error, either
\* both output files have been written or neither has.
C6_BothOrNeither ==
    pc \in {"done", "failed"} =>
        (out.sitemap.state = "written" <=> out.robots.state = "written")

\* C7: D/index.tsx gives the canonical path /D: every entry of the file is
\* basename, an optional language segment, then /D, and a configured language
\* gives at least one entry.
C7_IndexCollapse ==
    generateSitemapReturned =>
        \A f \in DOMAIN fs :
            (isIncludedRoute(f) /\ ~hasGroupSegment(f)
                /\ Len(relSegments(f)) > 1 /\ f[Len(f)] = s_index) =>
                /\ locsFrom(f) \subseteq
                      {basename \o canonicalPath(f)} \cup
                      { basename \o <<"/">> \o l \o canonicalPath(f) :
                          l \in languageSet }
                /\ languageSet # {} => locsFrom(f) # {}

\* C8: for an included route and a configured language l that is not the
\* default, the entry is basename + "/" + l + canonicalPath, the language a
\* path segment of its own, and never basename + "/" + l fused with the name.
\* Stated for the routes that are no index file (those are C7 and C9).
C8_LanguageIsOwnSegment ==
    generateSitemapReturned =>
        \A f \in DOMAIN fs : \A l \in otherLanguages :
            (isIncludedRoute(f) /\ f[Len(f)] # s_index) =>
                /\ (basename \o <<"/">> \o l \o canonicalPath(f)) \in locsFrom(f)
                /\ (basename \o <<"/">> \o l \o Tail(canonicalPath(f)))
                       \notin locsFrom(f)

\* C9: index.tsx directly in the routes root, with no languages configured,
\* gives exactly one entry, whose path is "/".
C9_RootIndexIsSlash ==
    (generateSitemapReturned /\ ~options.hasLanguages) =>
        \A f \in routeFiles :
            relSegments(f) = <<s_index>> =>
                /\ Cardinality(entriesFrom(f)) = 1
                /\ locsFrom(f) = {basename \o <<"/">>}

\* C10: a route file below a grouping directory is in the sitemap, and its
\* URL path is the canonical path: the group segments removed and the other
\* segments in their order.
C10_GroupStripped ==
    generateSitemapReturned =>
        \A f \in DOMAIN fs :
            (isIncludedRoute(f) /\ hasGroupSegment(f)) =>
                /\ locsFrom(f) # {}
                /\ \A loc \in locsFrom(f) : endsWith(loc, canonicalPath(f))

\* ------------------------------------------- notions of the content claims
\* The content root as segments, the content files below it, and for a
\* content file its type folder and the segments after it, the extension
\* removed.
contentRoot == resolve(articlesDirectory)
contentFiles ==
    { f \in DOMAIN fs : isPrefix(contentRoot, f) /\ endsWith(f[Len(f)], dot_md) }
typeFolder(f) == f[Len(contentRoot) + 1]
segmentsAfterType(f) ==
    [ i \in 1..(Len(f) - Len(contentRoot) - 1) |->
        replaceAtEnd(f[Len(contentRoot) + 1 + i], dot_md) ]

\* A directory called name exists somewhere in the tree below the routes root.
directoryInRoutesTree(name) ==
    \E g \in routeFiles : \E i \in (Len(routesRoot) + 1)..(Len(g) - 1) : g[i] = name

\* basename parses as a URL.
parsesAsURL(b) == startsWith(b, https) /\ Len(b) > Len(https)

\* The host of a URL: what stands between the scheme and the first slash
\* after it.
hostOf(b) ==
    LET rest == SubSeq(b, Len(https) + 1, Len(b))
        cut == { k \in 1..Len(rest) : rest[k] = "/" }
    IN  IF cut = {} THEN rest
        ELSE SubSeq(rest, 1, (CHOOSE k \in cut : \A j \in cut : k <= j) - 1)

\* The domains for which generateRobotsTxt is looked at on its own.
Domains == { <<"x">>, <<"a", ".", "b">> }
hasLine(text, line) == \E i \in 1..Len(text) : text[i] = line

\* The character data of an XML element stands for itself only when it holds
\* neither < nor &; a reader takes these two for markup.
isCharacterData(s) == \A i \in 1..Len(s) : s[i] \notin {"<", "&"}

\* The document can be read back: every url line holds character data
\* between its tags.
readsBack(xml) ==
    \A i \in 1..Len(serializedEntries(xml)) :
        /\ isCharacterData(serializedEntries(xml)[i].loc)
        /\ isCharacterData(serializedEntries(xml)[i].lastmod)

\* ----------------------------------------------------------- claims, cont.

\* C11: when the content root does not exist, generateArticlesSitemap returns
\* the empty list: it lists no directory (its only call is the test for the
\* root), it throws nothing, and the document generateSitemapXML returns has
\* exactly the entries generateSitemap returned.  The first three are stated
\* from their failure: a listing, an error or an entry of
\* generateArticlesSitemap is there only when the content root exists.
C11_MissingContentRoot ==
    /\ (\/ \E c \in io : c.from = "generateArticlesSitemap" /\ c.op # "exists"
        \/ \E e \in error : e.from = "generateArticlesSitemap"
        \/ articlesSitemap # <<>>)
          => exists(articlesDirectory)
    /\ (pc = "ensureSitemap" /\ ~exists(articlesDirectory))
          => serializedEntries(sitemapXML) = sitemapSet

\* C11, witness: the run has ended without a content root, after the routes
\* gave entries, and the document written lists them.
C11_Witness ==
    /\ pc = "done"
    /\ ~exists(articlesDirectory)
    /\ sitemapSet # <<>>
    /\ serializedEntries(out.sitemap.text) = sitemapSet

\* C12: the document has one url line per entry, in the order of the entries,
\* and reading the (loc, lastmod) pairs back from it gives the entries:
\* the document can be read, and the pairs are the entries.
C12_SerializationRoundTrip ==
    generateSitemapXMLReturned =>
        /\ Len(urlLines(sitemapXML)) = Len(sitemapSet \o articlesSitemap)
        /\ readsBack(sitemapXML)
        /\ serializedEntries(sitemapXML) = sitemapSet \o articlesSitemap

\* C13: generateRobotsTxt(D) has the line Host: https://D, the line
\* Sitemap: https://D/sitemap.xml and the directive that allows every user
\* agent everything, for every D; the robots.txt saveSitemapAndRobots
\* generates (looked at when generateRobotsTxt has returned) has the two
\* lines for the host of basename, and what is written is
\* generateRobotsTxt of that host.
C13_RobotsLines ==
    /\ pc = "xml" =>
          \A D \in Domains :
            /\ hasLine(generateRobotsTxt(D), <<"Host: https://">> \o D)
            /\ hasLine(generateRobotsTxt(D),
                       <<"Sitemap: https://">> \o D \o <<"/sitemap.xml">>)
            /\ \E i \in 1..(Len(generateRobotsTxt(D)) - 1) :
                  /\ generateRobotsTxt(D)[i] = <<"User-agent: *">>
                  /\ generateRobotsTxt(D)[i + 1] = <<"Allow: /">>
    /\ pc = "ensureSitemap" =>
          /\ hasLine(robotsTxt, <<"Host: https://">> \o hostOf(basename))
          /\ hasLine(robotsTxt, <<"Sitemap: https://">> \o hostOf(basename)
                                   \o <<"/sitemap.xml">>)
    /\ out.robots.state = "written" =>
          out.robots.text = generateRobotsTxt(hostOf(basename))

\* C13, witness: robots.txt has been written for a basename with a host.
C13_Witness ==
    /\ pc = "done"
    /\ out.robots.state = "written"
    /\ hostOf(basename) # <<>>

\* C14: with a basename that does not parse as a URL, saveSitemapAndRobots
\* makes no call on the file system: nothing is listed, tested or stat-ed,
\* and neither output file is created or written.
C14_BadBasenameNoIO ==
    ~parsesAsURL(basename) =>
        /\ io = {}
        /\ out.sitemap.state = "absent"
        /\ out.robots.state = "absent"
        /\ pc \in {"start", "failed"}

\* C14, witness: new URL has thrown on a basename that does not parse.
C14_Witness ==
    /\ pc = "failed"
    /\ ~parsesAsURL(basename)
    /\ \E e \in error : e.op = "new URL"

\* C15: a content file whose type folder has no directory of its name in the
\* routes tree gives no entry; when every content file is such a file, the
\* route lookup throws nothing; and once generateArticlesSitemap has
\* returned, every other content file has given its entries.
C15_NoRouteSkipsFile ==
    LET skipped == { f \in contentFiles : ~directoryInRoutesTree(typeFolder(f)) }
    IN  /\ \A f \in skipped : entriesFrom(f) = {}
        /\ (skipped # {} /\ skipped = contentFiles) =>
              \A e \in error : e.fn # "findFolderPathRecursively"
        /\ generateSitemapXMLReturned =>
              \A f \in contentFiles \ skipped : entriesFrom(f) # {}

\* The globs tried as include and as exclude: unset, the empty string, a file
\* name, every .tsx file of the root, everything directly below blog.
Globs ==
    { undefined, <<>>, s_about, <<"*">> \o dot_tsx, s_blog \o <<"/", "*">> }
isConfigured(glob) == glob # undefined /\ glob # <<>>

\* The pairs of include and exclude tried: each glob alone as the one and as
\* the other, and the file name excluded from what a glob includes.
GlobPairs ==
    { <<undefined, g>> : g \in Globs } \cup { <<g, undefined>> : g \in Globs }
    \cup { <<g, s_about>> : g \in Globs \ {undefined, <<>>} }

\* The path of a route file below the routes root as the variant with
\* include and exclude writes it into a loc: a leading slash, the segments
\* below the root, the extension kept.
pathBelowRoot(f) == <<"/">> \o join(relSegments(f), "/")

\* C16: in generateSitemap with include and exclude, for every file below the
\* routes root that is no grouping or dynamic route and every pair of globs:
\* when its path below the root, the leading slash stripped, matches the
\* exclude glob, the file gives no entry; when an include glob is configured
\* and the path does not match it, the file gives no entry; and with neither
\* glob the file gives an entry.
C16_IncludeExclude ==
    (pc = "addDirectory" /\ dirExists(routesRoot)) =>
        \A f \in routeFiles :
            ~(hasGroupSegment(f) \/ hasBracketedSegment(f)) =>
                LET pathname == globPathname(walkedPath(f))
                    tested == Tail(pathBelowRoot(f))
                IN  /\ globEntries(pathname, fs[f], undefined, undefined) # <<>>
                    /\ \A <<include, exclude>> \in GlobPairs :
                          (\/ isConfigured(exclude) /\ globTest(exclude, tested)
                           \/ isConfigured(include) /\ ~globTest(include, tested))
                            => globEntries(pathname, fs[f], include, exclude) = <<>>

\* C17: every loc of a content file ends with the segments of the file after
\* its type folder, the extension removed, each behind a slash and in their
\* order.
C17_SlugKeepsSegments ==
    \A f \in contentFiles :
        \A loc \in locsFrom(f) :
            endsWith(loc, <<"/">> \o join(segmentsAfterType(f), "/"))

\* C18: every directory the route lookup of generateArticlesSitemap lists is
\* the routes root given as distDirectory or a directory below it.
C18_LookupInDistDirectory ==
    \A c \in io :
        c.fn = "findFolderPathRecursively" =>
            \/ resolve(c.path) = routesRoot
            \/ isPrefix(routesRoot, resolve(c.path))

\* The un-prefixed paths the two language expansions are compared on.
UnprefixedPaths == { <<"/">> \o s_blog, <<"/">> \o s_blog \o <<"/">> \o s_a }

\* C19: when generateSitemap has returned and generateArticlesSitemap is
\* called with the same options, for every un-prefixed path P the URL paths
\* generateSitemap makes of P are those generateArticlesSitemap makes of P.
C19_SameLanguageExpansion ==
    pc = "articles" =>
        \A P \in UnprefixedPaths :
            { SubSeq(routeLocs(P)[i], Len(basename) + 1, Len(routeLocs(P)[i])) :
                i \in 1..Len(routeLocs(P)) }
            = { urlPaths(P)[i] : i \in 1..Len(urlPaths(P)) }

\* The entries one more turn of the deduplicating loop is tried with, after
\* sitemapMap: every loc of the map and one that is new, at every instant.
fresh_loc == <<"n", "e", "w">>
entriesToTry(sitemapMap) ==
    { [loc |-> l, lastmod |-> toISOString(t)] :
        l \in { sitemapMap[i].loc : i \in 1..Len(sitemapMap) } \cup {fresh_loc},
        t \in 1..MaxTime }

\* The locs of a list in the order of their first occurrence.
RECURSIVE firstSeen(_)
firstSeen(list) ==
    IF Len(list) = 0 THEN <<>>
    ELSE LET before == firstSeen(SubSeq(list, 1, Len(list) - 1))
             loc == list[Len(list)].loc
         IN  IF \E i \in 1..Len(before) : before[i] = loc THEN before
             ELSE Append(before, loc)

\* C20: in the deduplicating generateSitemapXML, on the entries of the run
\* (those of the routes, then those of the content): uniqueSitemap lists the
\* locs in the order of their first occurrence; and after every prefix of
\* the entries, the next entry (after the last, every entry of a seen or a
\* new loc at every instant) either is new and goes to the end, or is later
\* than the one kept for its loc and takes its lastmod in its place, or
\* changes nothing; no other entry moves or changes.
C20_FirstSeenOrder ==
    pc = "xml" =>
        LET combinedSitemap == sitemapSet \o articlesSitemap
            unique == uniqueSitemap(combinedSitemap)
        IN  /\ [ i \in 1..Len(unique) |-> unique[i].loc ]
                  = firstSeen(combinedSitemap)
            /\ \A k \in 0..Len(combinedSitemap) :
                  LET sitemapMap == uniqueSitemap(SubSeq(combinedSitemap, 1, k))
                      tried == IF k < Len(combinedSitemap)
                               THEN {combinedSitemap[k + 1]}
                               ELSE entriesToTry(sitemapMap)
                  IN  \A entry \in tried :
                        LET after == keepLatest(sitemapMap, entry)
                            at == { i \in 1..Len(sitemapMap) :
                                      sitemapMap[i].loc = entry.loc }
                        IN  IF at = {}
                            THEN after = Append(sitemapMap, entry)
                            ELSE /\ Len(after) = Len(sitemapMap)
                                 /\ \A i \in 1..Len(after) :
                                       /\ after[i].loc = sitemapMap[i].loc
                                       /\ i \notin at => after[i] = sitemapMap[i]
                                       /\ i \in at =>
                                             after[i].lastmod =
                                               IF instant(entry.lastmod) >
                                                    instant(sitemapMap[i].lastmod)
                                               THEN entry.lastmod
                                               ELSE sitemapMap[i].lastmod

\* C20, witness: the entries of the run hold a loc twice, the second time
\* with the later lastmod, and the loop has replaced the first.
C20_Witness ==
    /\ pc = "xml"
    /\ LET combinedSitemap == sitemapSet \o articlesSitemap
       IN  /\ \E i, j \in 1..Len(combinedSitemap) :
                 /\ i < j
                 /\ combinedSitemap[i].loc = combinedSitemap[j].loc
                 /\ instant(combinedSitemap[i].lastmod)
                       < instant(combinedSitemap[j].lastmod)
           /\ Len(uniqueSitemap(combinedSitemap)) < Len(combinedSitemap)

\* ------------------------------------------------- notions of the walk claims
\* The orders in which Deno.readDir may list the names of a directory.
Listings(names) ==
    { l \in [1..Cardinality(names) -> names] :
        \A i, j \in 1..Cardinality(names) : l[i] = l[j] => i = j }

\* One path comes before another in the walk order: at the first segment
\* where they differ, the name of the one sorts before the name of the other.
RECURSIVE segmentsBefore(_, _)
segmentsBefore(p, q) ==
    IF Len(p) = 0 \/ Len(q) = 0 THEN FALSE
    ELSE IF p[1] = q[1] THEN segmentsBefore(Tail(p), Tail(q))
    ELSE localeCompareLess(p[1], q[1])

\* C21: stableRecurseFiles(distDirectory) yields the path of every file below
\* the directory, each once, and nothing else; the names of every directory
\* it lists come out of the sort in the same order whatever order they were
\* listed in; and what the walk has still to yield, for the routes and for
\* the content, are files, each before the next: in ascending order of
\* names within a directory, a sub-directory's files where its name stands.
C21_WalkOrder ==
    /\ (pc = "addDirectory" /\ dirExists(routesRoot)) =>
          LET yielded == stableRecurseFiles(distDirectory)
          IN  /\ Len(yielded) = Cardinality(routeFiles)
              /\ { yielded[i] : i \in 1..Len(yielded) }
                    = { walkedPath(f) : f \in routeFiles }
              /\ \A d \in listedBy(distDirectory) :
                    \A files \in Listings(readDir(resolve(d))) :
                        filesSort(files) = sorted(readDir(resolve(d)))
    /\ pc \in {"walkRoutes", "walkArticles"} =>
          /\ \A i \in 1..Len(walk) : resolve(walk[i]) \in DOMAIN fs
          /\ \A i \in 1..(Len(walk) - 1) :
                segmentsBefore(resolve(walk[i]), resolve(walk[i + 1]))

\* C21, witness: the walk of the routes has started on a tree with a file
\* beside a sub-directory whose name sorts before the file's, and yields the
\* file of the sub-directory first.
C21_Witness ==
    /\ pc = "walkRoutes"
    /\ Len(walk) = 2
    /\ Len(resolve(walk[1])) > Len(resolve(walk[2]))

\* The entries addMarkdownFile pushes for a content file when the lookup of
\* its route directory has the outcome found, as a set.
entriesWith(f, found) ==
    IF found.result = null THEN {}
    ELSE LET path == walkedPath(f)
             segments == split(replaceAtEnd(path, dot_md), SEPARATOR)
             pushed == articleEntries(path, articlePathname(segments, found.result))
         IN  { [file |-> path, loc |-> pushed[i].loc, lastmod |-> pushed[i].lastmod] :
                 i \in 1..Len(pushed) }

\* C22: the document generateSitemapXML returns is the same for every order
\* in which the directories are listed: it is the document of the route
\* entries and the content entries, and the entries it has for a content
\* file are those the file gives under every outcome the lookup of its route
\* directory can have on this tree.
C22_SameDocumentForEveryListing ==
    generateSitemapXMLReturned =>
        /\ sitemapXML = generateSitemapXML(sitemapSet, articlesSitemap)
        /\ \A f \in contentFiles :
              \A found \in findFolderPathRecursively(dot_routes, typeFolder(f)) :
                  entriesFrom(f) = entriesWith(f, found)

\* The turn of the loop over pathMap for its i-th path is over.
turnOver(i) ==
    \/ pc \in {"pathLoop", "stat"} /\ i < idx
    \/ generateSitemapReturned

\* C23: a route file the walk has yielded and flagged for the sitemap is never
\* passed over: when its turn in the loop of generateSitemap is over, its
\* modification time has been read; and when that read throws because the
\* file is gone, saveSitemapAndRobots ends there, no document returned and
\* no output touched.
C23_StatFailurePropagates ==
    /\ \A i \in 1..Len(pathMap) :
          (pathMap[i].flag = 1 /\ turnOver(i)) =>
              call("stat", "generateSitemap", "generateSitemap",
                   normalize(pathMap[i].path)) \in io
    /\ \A e \in error :
          (e.op = "stat" /\ e.fn = "generateSitemap") =>
              /\ pc = "failed"
              /\ sitemapXML = <<>>
              /\ out = [sitemap |-> NoFile, robots |-> NoFile]

\* C24: route files are handled one at a time: when the walker has yielded a
\* later file, the modification time of every route file yielded before it
\* and flagged for the sitemap has been read.  pathMap holds the .tsx files
\* yielded so far in the order of the walk.
C24_OneFileAtATime ==
    \A i \in 1..(Len(pathMap) - 1) :
        pathMap[i].flag = 1 =>
            call("stat", "generateSitemap", "generateSitemap",
                 normalize(pathMap[i].path)) \in io

\* The name of a route file without its extension, and the name of the
\* directory it lies in.
fileName(f) == replaceAtEnd(f[Len(f)], dot_tsx)
directoryName(f) == f[Len(f) - 1]

\* C25: every loc of a route file whose name is not index ends with the full
\* name of the file, also when the name ends in the letters index; and every
\* loc of an index file in a directory below the routes root ends with the
\* name of that directory, the separator before index removed with it.
C25_OnlyExactIndexCollapsed ==
    generateSitemapReturned =>
        \A f \in routeFiles :
            \A loc \in locsFrom(f) :
                IF fileName(f) # index_word
                THEN endsWith(loc, fileName(f))
                ELSE Len(relSegments(f)) > 1 => endsWith(loc, directoryName(f))

\* The part of a loc behind basename.
pathOf(loc) == SubSeq(loc, Len(basename) + 1, Len(loc))

\* C26: the routes root, whatever its name, is not part of a URL, and what
\* lies below it is: for a route file with no group segment that is no index
\* file, every loc ends with the segments below the root in their order, a
\* directory named routes among them included, and holds no segment of the
\* root's own path that is not also the name of a segment below the root.
C26_OnlyRootDropped ==
    generateSitemapReturned =>
        \A f \in routeFiles :
            (~hasGroupSegment(f) /\ fileName(f) # index_word) =>
                \A loc \in locsFrom(f) :
                    /\ endsWith(loc, join(nameSegments(f), "/"))
                    /\ \A i \in 1..Len(routesRoot) :
                          (\A j \in 1..Len(nameSegments(f)) :
                               nameSegments(f)[j] # routesRoot[i])
                            => ~includes(pathOf(loc), routesRoot[i])

\* C27: with at least one language configured, when generateSitemap has
\* returned, every .tsx file below the routes root that has no segment
\* starting with an underscore and no bracketed segment has given at least
\* one entry, an underscore elsewhere in a name notwithstanding.
C27_EveryPublicRouteListed ==
    (generateSitemapReturned /\ Len(options.languages) > 0) =>
        \A f \in DOMAIN fs :
            isIncludedRoute(f) => entriesFrom(f) # {}

\* C28: a slash at the end of basename changes no loc: every loc, of a route
\* or of a content file, is basename without the slashes at its end,
\* followed by a path that begins with a slash and has no two slashes in a
\* row, which is what it is with the same basename written without them.
C28_TrailingSlashIgnored ==
    \A d \in derived :
        LET B == stripTrailingSlashes(basename)
            path == SubSeq(d.loc, Len(B) + 1, Len(d.loc))
        IN  /\ startsWith(d.loc, B)
            /\ startsWith(path, <<"/">>)
            /\ ~includes(path, <<"/", "/">>)

\* An output path has been touched: it was created or written, or ensureFile
\* or Deno.writeTextFile was called on it.
touched(file) ==
    \/ out[file].state # "absent"
    \/ \E c \in io : c.fn = "saveSitemapAndRobots" /\ c.path = <<file>>

\* generateSitemapXML has thrown: a listing or a stat failed during the scan.
scanFailed == \E e \in error : e.op \in {"readDir", "stat"}

\* C29: saveSitemapAndRobots touches its output paths only when
\* generateSitemapXML has returned: while the scan runs and when it has
\* failed neither path is touched; and the robots file is touched only when
\* the sitemap file has been written.
C29_OutputsAfterScan ==
    /\ (touched("sitemap") \/ touched("robots")) =>
          /\ ~scanFailed
          /\ \/ generateSitemapXMLReturned
             \/ pc = "failed" /\ \E e \in error : e.fn = "saveSitemapAndRobots"
          /\ sitemapXML = generateSitemapXML(sitemapSet, articlesSitemap)
    /\ scanFailed =>
          /\ pc = "failed"
          /\ out = [sitemap |-> NoFile, robots |-> NoFile]
    /\ touched("robots") => out.sitemap.state = "written"

\* C29, witness: Deno.stat has thrown on a route file that was removed after
\* the exists test, and saveSitemapAndRobots has ended with both output paths
\* untouched.
C29_Witness ==
    /\ pc = "failed"
    /\ \E e \in error : e.op = "stat"
    /\ ~touched("sitemap") /\ ~touched("robots")

====
